---- MODULE Spec2Model ----
(***************************************************************************)
(* VerifikaQA: input consolidation, QA command construction, the engine    *)
(* run and the post-processing of the engine's report workbook.            *)
(*                                                                         *)
(* Text is modelled as a sequence of atoms.  An atom is a space (SP), a    *)
(* double quote (QT) or a chunk of characters holding neither, so that     *)
(* splitting on spaces and quoting are computed, not assumed.              *)
(***************************************************************************)
EXTENDS Integers, Sequences, FiniteSets, TLC

VARIABLES
    pc,             \* position of the program
    files,          \* selected input files, a sequence of paths
    files_dir,      \* directory of the first selected file
    srcFiles,       \* filesystem: names of the input files present in each directory
    tempDir,        \* filesystem: the temp_dir sub-directory of each directory
    tempReport,     \* filesystem: <files_dir>/temp_report.xlsx
    saved,          \* filesystem: the report saved at the chosen destination
    files_to_check, \* path handed to the engine after -files
    exe,            \* verifika_exe_location
    profile,        \* verifika_profile
    selection,      \* error_types / sheets_to_keep
    manual,         \* manual_report / manual_optimization
    cmd,            \* cmd_command
    engine,         \* state of the child process
    wb,             \* wb_verifika, the workbook in memory
    new_report_name,\* destination returned by the save dialog
    attempts,       \* number of save dialogs shown so far
    notices,        \* message boxes shown to the user
    outcome,        \* how the run ended: "running", "returned", "exit" or an exception
    program,        \* the entry point: "verifika", "old_verifika" or "main"
    procs,          \* the processes of the machine, in the order process_iter yields them
    process,        \* the process the precheck is dealing with (0: none)
    answers,        \* what the user did with each question of the precheck
    dialogs,        \* the file and report-type dialogs shown, each with the user's reply
    config_file,    \* the configuration in memory
    config_ini,     \* config.ini on disk
    child,          \* where the standard streams of the child process go
    console,        \* what the child process has shown on the user's console
    start           \* the filesystem and config.ini as they were when the run started

inVars == <<files, files_dir, exe, profile, selection, manual>>
fsVars == <<srcFiles, tempDir, tempReport, saved>>
runVars == <<files_to_check, cmd, engine, wb, new_report_name, attempts, notices>>
envVars ==
    <<program, procs, process, answers, dialogs, config_file, config_ini, child, console, start>>
vars == <<pc, outcome, inVars, fsVars, runVars, envVars>>

----------------------------------------------------------------------------
(* Bounds of the model *)

MaxFiles == 2
MaxSheets == 3
MaxProcs == 2

----------------------------------------------------------------------------
(* Text *)

SP == " "
QT == "\""

Range(s) == {s[i] : i \in 1..Len(s)}

\* str.split(" ")[0]: the text before the first space
RECURSIVE SplitFirst(_)
SplitFirst(s) ==
    IF s = <<>> \/ Head(s) = SP THEN <<>>
    ELSE <<Head(s)>> \o SplitFirst(Tail(s))

----------------------------------------------------------------------------
(* Labels *)

FullLabel == <<"Full">>
CommonErrors == <<"Common", SP, "Errors">>
ConsistencyErrors == <<"Consistency", SP, "Errors">>
SpellingErrors == <<"Spelling", SP, "Errors">>
GrammarErrors == <<"Grammar", SP, "Errors">>
UserDefinedErrors == <<"User-Defined", SP, "Errors">>
UserdefinedErrors == <<"User-defined", SP, "Errors">>

\* checkbuttons_window: the labels of the custom report, in the order of the boxes
checkbutton_list ==
    <<CommonErrors, ConsistencyErrors, SpellingErrors, GrammarErrors, UserDefinedErrors>>

\* the expansion of the "Spelling + Grammar" radiobutton
SpellingGrammar == <<SpellingErrors, GrammarErrors, UserdefinedErrors>>

RECURSIVE SubSeqOf(_, _)
SubSeqOf(s, keep) ==
    IF s = <<>> THEN <<>>
    ELSE (IF Len(s) \in keep THEN SubSeqOf(SubSeq(s, 1, Len(s) - 1), keep) \o <<s[Len(s)]>>
          ELSE SubSeqOf(SubSeq(s, 1, Len(s) - 1), keep))

\* select_report_type: every value of sheets_to_keep it can return
select_report_type ==
    {<<FullLabel>>, <<ConsistencyErrors>>, SpellingGrammar}
    \cup {SubSeqOf(checkbutton_list, keep) :
            keep \in (SUBSET (1..Len(checkbutton_list))) \ {{}}}

----------------------------------------------------------------------------
(* Paths *)

Dirs == {<<"C:/f">>, <<"C:/my", SP, "files">>}
Names == {<<"a.xliff">>, <<"b.xliff">>}
StaleNames == {<<"a.xliff">>, <<"old.xliff">>}

Paths == [dir : Dirs, name : Names]

\* str(Path(dir, name)) and f"{dir}/{name}"
PathStr(p) == p.dir \o <<"/">> \o p.name

TempDirPath(d) == [dir |-> d, name |-> <<"temp_dir">>]
TempReportPath(d) == [dir |-> d, name |-> <<"temp_report.xlsx">>]

ExePaths == {<<"C:/v/verifika.exe">>, <<"C:/Program", SP, "Files/verifika.exe">>}
ProfilePaths == {<<"C:/p/x.vprofile">>, <<"C:/my", SP, "p/x.vprofile">>}

\* the content of an input file is identified with the file it was written to
Content(p) == p
StaleContent(n) == [dir |-> <<"stale">>, name |-> n]

FileSeqs == UNION {[1..n -> Paths] : n \in 1..MaxFiles}

----------------------------------------------------------------------------
(* Filesystem *)

NoPath == [dir |-> <<>>, name |-> <<>>]

TempAbsent == [exists |-> FALSE, locked |-> FALSE, entries |-> {}]

StaleEntries(S) == {[name |-> n, content |-> StaleContent(n)] : n \in S}

\* a temp_dir left behind by an earlier run; locked: the OS refuses to delete it
TempStates ==
    {TempAbsent} \cup
    {[exists |-> TRUE, locked |-> l, entries |-> StaleEntries(S)] :
        l \in BOOLEAN, S \in SUBSET StaleNames}

\* shutil.copy(src, dst): dst is created or overwritten
CopyInto(entries, n, c) ==
    {e \in entries : e.name # n} \cup {[name |-> n, content |-> c]}

\* file_processing.delete_dir: rmtree(dir, ignore_errors=True); every error is
\* swallowed, a directory the OS refuses to delete stays, with any part of its
\* entries
delete_dir(td, d) ==
    IF ~td[d].exists THEN {td}
    ELSE IF td[d].locked
         THEN {[td EXCEPT ![d].entries = S] : S \in SUBSET td[d].entries}
         ELSE {[td EXCEPT ![d] = TempAbsent]}

\* the copy loop of prepare_files: copy(file, Path(temp_dir, file.name))
RECURSIVE prepare_copy(_, _, _)
prepare_copy(fls, src, entries) ==
    IF fls = <<>> THEN [raised |-> "none", entries |-> entries]
    ELSE LET file == Head(fls) IN
         IF file.name \notin src[file.dir]
         THEN [raised |-> "FileNotFoundError", entries |-> entries]
         ELSE prepare_copy(Tail(fls), src, CopyInto(entries, file.name, Content(file)))

\* prepare_files without its single-file return: one file is consolidated too
prepare_files_always(fls, src, td) ==
    LET d == fls[1].dir IN
    {IF t[d].exists
     THEN [ret |-> NoPath, raised |-> "FileExistsError", tempDir |-> t]
     ELSE LET c == prepare_copy(fls, src, {}) IN
          [ret |-> IF c.raised = "none" THEN TempDirPath(d) ELSE NoPath,
           raised |-> c.raised,
           tempDir |-> [t EXCEPT ![d] = [exists |-> TRUE, locked |-> FALSE,
                                         entries |-> c.entries]]]
     : t \in delete_dir(td, d)}

\* prepare_files without delete_dir, creating temp_dir only when it is missing
prepare_files_keep(fls, src, td) ==
    IF Len(fls) = 1 THEN {[ret |-> fls[1], raised |-> "none", tempDir |-> td]}
    ELSE LET d == fls[1].dir
             c == prepare_copy(fls, src, td[d].entries)
         IN  {[ret |-> IF c.raised = "none" THEN TempDirPath(d) ELSE NoPath,
               raised |-> c.raised,
               tempDir |-> [td EXCEPT ![d] = [exists |-> TRUE, locked |-> td[d].locked,
                                              entries |-> c.entries]]]}

\* file_processing.prepare_files: the set of its possible results
prepare_files(fls, src, td) ==
    IF Len(fls) = 1 THEN {[ret |-> fls[1], raised |-> "none", tempDir |-> td]}
    ELSE LET d == fls[1].dir IN
         {IF t[d].exists
          THEN [ret |-> NoPath, raised |-> "FileExistsError", tempDir |-> t]
          ELSE LET c == prepare_copy(fls, src, {}) IN
               [ret |-> IF c.raised = "none" THEN TempDirPath(d) ELSE NoPath,
                raised |-> c.raised,
                tempDir |-> [t EXCEPT ![d] = [exists |-> TRUE, locked |-> FALSE,
                                              entries |-> c.entries]]]
          : t \in delete_dir(td, d)}

\* the copy loop of manage_files: the source is files_dir + "\\" + file_name
RECURSIVE manage_copy(_, _, _, _)
manage_copy(fls, d, src, entries) ==
    IF fls = <<>> THEN [raised |-> "none", entries |-> entries]
    ELSE LET file_name == Head(fls).name IN
         IF file_name \notin src[d]
         THEN [raised |-> "FileNotFoundError", entries |-> entries]
         ELSE manage_copy(Tail(fls), d, src,
                          CopyInto(entries, file_name,
                                   Content([dir |-> d, name |-> file_name])))

\* main.manage_files
manage_files(fls, src, td) ==
    LET d == fls[1].dir IN
    IF Len(fls) > 1
    THEN IF td[d].exists /\ td[d].locked
         THEN {[ret |-> NoPath, raised |-> "PermissionError",
                tempDir |-> [td EXCEPT ![d].entries = S]] : S \in SUBSET td[d].entries}
         ELSE LET c == manage_copy(fls, d, src, {}) IN
              {[ret |-> IF c.raised = "none" THEN TempDirPath(d) ELSE NoPath,
                raised |-> c.raised,
                tempDir |-> [td EXCEPT ![d] = [exists |-> TRUE, locked |-> FALSE,
                                               entries |-> c.entries]]]}
    ELSE {[ret |-> fls[1], raised |-> "none", tempDir |-> td]}

----------------------------------------------------------------------------
(* Report preset and QA command *)

report_presets == {CommonErrors, ConsistencyErrors, SpellingErrors}

\* the preset chosen from the first label alone, whatever the number of labels
determine_report_preset_first(error_types) ==
    IF error_types[1] \in report_presets
    THEN SplitFirst(error_types[1])
    ELSE <<"Full">>

\* qa_command_utils._determine_report_preset, old_verifika.get_report_type
determine_report_preset(error_types) ==
    IF Len(error_types) = 1 /\ error_types[1] \in report_presets
    THEN SplitFirst(error_types[1])
    ELSE <<"Full">>

\* generate_qa_command asking for the result file whatever manual_report is
generate_qa_command_result(fdir, vexe, ftc, vprofile, error_types, manual_report) ==
    <<QT>> \o vexe \o <<QT, SP, "-files", SP, QT>> \o PathStr(ftc) \o <<QT, SP>>
    \o <<"-profile", SP, QT>> \o vprofile
    \o <<QT, SP, "-startcheck", SP, "-type", SP>> \o determine_report_preset(error_types)
    \o <<SP, "-result", SP>> \o PathStr(TempReportPath(fdir))

\* qa_command_utils.generate_qa_command
generate_qa_command(fdir, vexe, ftc, vprofile, error_types, manual_report) ==
    LET report_type == determine_report_preset(error_types)
        cmd_command ==
            <<QT>> \o vexe \o <<QT, SP, "-files", SP, QT>>
            \o PathStr(ftc) \o <<QT, SP>>
            \o <<"-profile", SP, QT>> \o vprofile
            \o <<QT, SP, "-startcheck", SP, "-type", SP>> \o report_type
    IN  IF ~manual_report
        THEN cmd_command \o <<SP, "-result", SP>> \o PathStr(TempReportPath(fdir))
        ELSE cmd_command

\* old_verifika.generate_cmd_command
generate_cmd_command(fdir, vexe, ftc, vprofile, error_types, manual_opt) ==
    LET report_type == determine_report_preset(error_types)
        cmd_command ==
            <<QT>> \o vexe \o <<QT, SP, "-files", SP, QT>>
            \o PathStr(ftc) \o <<QT, SP>>
            \o <<"-profile", SP, QT>> \o vprofile
            \o <<QT, SP, "-startcheck", SP, "-type", SP>> \o report_type
    IN  IF ~manual_opt
        THEN cmd_command \o <<SP, "-result", SP>> \o PathStr(TempReportPath(fdir))
        ELSE cmd_command

\* main.run_qa, lines 400-421: the command it builds
run_qa_cmd(fdir, vexe, ftc, vprofile, sheets_to_keep, manual_opt) ==
    LET temp_report_name == PathStr(TempReportPath(fdir))
        condition == {CommonErrors, ConsistencyErrors, SpellingErrors}
        head ==
            <<QT>> \o vexe \o <<QT, SP, "-files", SP, QT>>
            \o PathStr(ftc) \o <<QT, SP, "-profile", SP, QT>> \o vprofile
            \o <<QT>>
        cmd_command ==
            IF Len(sheets_to_keep) = 1
               /\ \E sheet \in condition : sheet \in Range(sheets_to_keep)
            THEN head \o <<SP, "-startcheck", SP, "-type", SP>>
                 \o SplitFirst(sheets_to_keep[1])
            ELSE head \o <<SP, "-startcheck", SP, "-type", SP, "Full">>
    IN  IF ~manual_opt
        THEN cmd_command \o <<SP, "-result", SP>> \o temp_report_name
        ELSE cmd_command

----------------------------------------------------------------------------
(* Processes and the question of the precheck *)

ProcNames == {"Verifika.exe", "verifika.exe", "notepad.exe"}

\* str.lower() on the names above
lower(name) == IF name = "Verifika.exe" THEN "verifika.exe" ELSE name

\* process tables of up to MaxProcs processes, all running
ProcTables ==
    UNION {{[i \in 1..n |-> [name |-> names[i], state |-> "running"]] :
               names \in [1..n -> ProcNames]} : n \in 0..MaxProcs}

\* file_browsing._is_verifika_running: the first process of that name, 0 for None
is_verifika_running(ps) ==
    LET found == {i \in 1..Len(ps) :
                     ps[i].state = "running" /\ lower(ps[i].name) = "verifika.exe"}
    IN  IF found = {} THEN 0 ELSE CHOOSE i \in found : \A j \in found : i <= j

\* main.close_verifika lines 316-317: the next process of the loop, after the
\* one at position i, whose name is "Verifika.exe"; 0 when the loop is over
next_verifika(ps, i) ==
    LET found == {k \in (i + 1)..Len(ps) :
                     ps[k].state = "running" /\ ps[k].name = "Verifika.exe"}
    IN  IF found = {} THEN 0 ELSE CHOOSE k \in found : \A j \in found : k <= j

\* what the user does with a question: a button, or the window is dismissed
Replies == {"yes", "no", "dismiss"}

\* the question taking a dismissed window for Yes
question_default_yes(reply) == IF reply = "no" THEN "No" ELSE "Yes"

\* QMessageBox.question with the buttons Yes | No: a dismissed window returns
\* the escape button, which is No
question(reply) == IF reply = "yes" THEN "Yes" ELSE "No"

\* tkinter.messagebox.askyesno: True for the button Yes only
askyesno(reply) == reply = "yes"

\* Process.kill(): NoSuchProcess when the process has exited already
kill(ps, i) ==
    IF ps[i].state = "running"
    THEN [procs |-> [ps EXCEPT ![i].state = "killed"], raised |-> "none"]
    ELSE [procs |-> ps, raised |-> "NoSuchProcess"]

----------------------------------------------------------------------------
(* The configuration *)

\* the fallback "" of a missing option
NoValue == <<>>

\* locations config.ini may hold that are no file and no directory any more
GoneExe == <<"C:/old/verifika.exe">>
GoneDir == <<"C:/old">>

ProfileDirs == {<<"C:/p">>, <<"C:/my", SP, "p">>}
ProfileFiles == [dir : ProfileDirs, name : {<<"x.vprofile">>}]

\* Path.is_file, os.path.isfile
is_file(p) == p \in ExePaths

\* os.path.isdir
isdir(d) == d \in ProfileDirs

Options == {"verifika_location", "verifika_profiles_location"}

ConfigValues == {NoValue, GoneExe, GoneDir} \cup ExePaths \cup ProfileDirs

\* config.ini as the user keeps it ("edited": with comments or a layout of their
\* own) or as ConfigParser writes it
Layouts == {"edited", "written"}

\* ConfigParser.write(file): the file is rewritten from the values in memory
write(cfg, ini) == [values |-> cfg, layout |-> "written", writes |-> ini.writes + 1]

\* verifika_config.update_config
update_config(cfg, ini, option, value) ==
    LET old_val == cfg[option] IN
    IF value # old_val
    THEN LET c == [cfg EXCEPT ![option] = value]
         IN  [config_file |-> c, config_ini |-> write(c, ini)]
    ELSE [config_file |-> cfg, config_ini |-> ini]

\* main.update_config
main_update_config(cfg, ini, option, value) ==
    LET c == [cfg EXCEPT ![option] = value]
    IN  [config_file |-> c, config_ini |-> write(c, ini)]

----------------------------------------------------------------------------
(* The standard streams of the child process *)

NoChild == [stdout |-> "none", stderr |-> "none"]

\* subprocess.Popen(..., stdout=, stderr=): None inherits the console, DEVNULL
\* discards, and stderr=STDOUT sends standard error where standard output goes
popen_streams(stdout, stderr) ==
    LET out == IF stdout = "DEVNULL" THEN "devnull" ELSE "console"
        err == IF stderr = "STDOUT" THEN out
               ELSE IF stderr = "DEVNULL" THEN "devnull" ELSE "console"
    IN  [stdout |-> out, stderr |-> err]

\* what a stream shows on the console
shown(sink, text) == IF sink = "console" THEN {text} ELSE {}

----------------------------------------------------------------------------
(* Values of the variables a step has not set yet *)

NoFile == [exists |-> FALSE, sheets |-> <<>>]
NoTempDirs == [d \in Dirs |-> TempAbsent]
AllSources == [d \in Dirs |-> Names]

NoConfig == [verifika_location |-> NoValue, verifika_profiles_location |-> NoValue]

\* no process of interest, no dialog shown yet, the configuration just read
IdleEnv ==
    /\ procs = <<>>
    /\ process = 0
    /\ answers = <<>>
    /\ dialogs = <<>>
    /\ config_file = NoConfig
    /\ config_ini = [values |-> NoConfig, layout |-> "written", writes |-> 0]
    /\ child = NoChild
    /\ console = {}
    /\ start = [srcFiles |-> srcFiles, tempDir |-> tempDir, tempReport |-> tempReport,
                config_ini |-> config_ini]

IdleRun ==
    /\ cmd = <<>>
    /\ engine = "none"
    /\ wb = <<>>
    /\ new_report_name = "unset"
    /\ attempts = 0
    /\ notices = {}
    /\ outcome = "running"

----------------------------------------------------------------------------
(* Input consolidation *)

\* every selected file exists: the file dialog returns existing files
Selected(fls, src) == \A i \in 1..Len(fls) : fls[i].name \in src[fls[i].dir]

InitFiles ==
    /\ pc \in {"prepare_files", "manage_files"}
    /\ files \in FileSeqs
    /\ files_dir = files[1].dir
    /\ srcFiles \in {src \in [Dirs -> SUBSET Names] : Selected(files, src)}
    /\ tempDir \in [Dirs -> TempStates]
    /\ tempReport = NoFile
    /\ saved = NoFile
    /\ files_to_check = NoPath
    /\ exe = <<"C:/v/verifika.exe">>
    /\ profile = <<"C:/p/x.vprofile">>
    /\ selection = <<FullLabel>>
    /\ manual = FALSE
    /\ IdleRun
    /\ program = (IF pc = "manage_files" THEN "main" ELSE "verifika")
    /\ IdleEnv

\* verifika.verifika line 52 and old_verifika.verifika line 110:
\* files_to_check = prepare_files(files)
PrepareFiles ==
    /\ pc = "prepare_files"
    /\ \E r \in prepare_files(files, srcFiles, tempDir) :
        /\ tempDir' = r.tempDir
        /\ files_to_check' = r.ret
        /\ pc' = IF r.raised # "none" THEN "done"
                 ELSE IF program = "old_verifika" THEN "generate_cmd_command"
                 ELSE "generate_qa_command"
        /\ outcome' = IF r.raised = "none" THEN outcome ELSE r.raised
    /\ UNCHANGED <<inVars, srcFiles, tempReport, saved>>
    /\ UNCHANGED <<cmd, engine, wb, new_report_name, attempts, notices>>
    /\ UNCHANGED envVars

\* main.main line 511: files_to_check = manage_files(files)
ManageFiles ==
    /\ pc = "manage_files"
    /\ \E r \in manage_files(files, srcFiles, tempDir) :
        /\ tempDir' = r.tempDir
        /\ files_to_check' = r.ret
        /\ pc' = IF r.raised = "none" THEN "run_qa" ELSE "done"
        /\ outcome' = IF r.raised = "none" THEN outcome ELSE r.raised
    /\ UNCHANGED <<inVars, srcFiles, tempReport, saved>>
    /\ UNCHANGED <<cmd, engine, wb, new_report_name, attempts, notices>>
    /\ UNCHANGED envVars

NextFiles == PrepareFiles \/ ManageFiles

SpecFiles == InitFiles /\ [][NextFiles]_vars

----------------------------------------------------------------------------
(* Command construction *)

\* files selected in one dialog lie in one directory
SameDir(fls) == \A i \in 1..Len(fls) : fls[i].dir = fls[1].dir

InitCmd ==
    /\ pc \in {"generate_qa_command", "generate_cmd_command", "run_qa"}
    /\ files \in {fls \in FileSeqs : SameDir(fls)}
    /\ files_dir = files[1].dir
    /\ srcFiles = AllSources
    /\ \E r \in prepare_files(files, srcFiles, NoTempDirs) :
        /\ tempDir = r.tempDir
        /\ files_to_check = r.ret
    /\ tempReport = NoFile
    /\ saved = NoFile
    /\ exe \in ExePaths
    /\ profile \in ProfilePaths
    /\ selection \in select_report_type
    /\ manual \in BOOLEAN
    /\ IdleRun
    /\ program = (IF pc = "run_qa" THEN "main"
                  ELSE IF pc = "generate_cmd_command" THEN "old_verifika" ELSE "verifika")
    /\ IdleEnv

\* verifika.verifika lines 54-56
GenerateQaCommand ==
    /\ pc = "generate_qa_command"
    /\ cmd' = generate_qa_command(files_dir, exe, files_to_check, profile,
                                  selection, manual)
    /\ pc' = "delete_dir"
    /\ UNCHANGED <<outcome, inVars, fsVars>>
    /\ UNCHANGED <<files_to_check, engine, wb, new_report_name, attempts, notices>>
    /\ UNCHANGED envVars

\* old_verifika.verifika lines 112-114
GenerateCmdCommand ==
    /\ pc = "generate_cmd_command"
    /\ cmd' = generate_cmd_command(files_dir, exe, files_to_check, profile,
                                   selection, manual)
    /\ pc' = "old_delete_dir"
    /\ UNCHANGED <<outcome, inVars, fsVars>>
    /\ UNCHANGED <<files_to_check, engine, wb, new_report_name, attempts, notices>>
    /\ UNCHANGED envVars

\* main.run_qa lines 400-421
RunQaCommand ==
    /\ pc = "run_qa"
    /\ cmd' = run_qa_cmd(files_dir, exe, files_to_check, profile, selection, manual)
    /\ pc' = "spawn"
    /\ UNCHANGED <<outcome, inVars, fsVars>>
    /\ UNCHANGED <<files_to_check, engine, wb, new_report_name, attempts, notices>>
    /\ UNCHANGED envVars

NextCmd == GenerateQaCommand \/ GenerateCmdCommand \/ RunQaCommand

SpecCmd == InitCmd /\ [][NextCmd]_vars

----------------------------------------------------------------------------
(* Properties of the input consolidation *)

Consolidated == pc \in {"generate_qa_command", "run_qa"}

DistinctNames(fls) ==
    \A i, j \in 1..Len(fls) : fls[i].name = fls[j].name => i = j

\* C1: with exactly one selected file, prepare_files and manage_files return
\* that path and leave the whole filesystem as it was: no temp_dir is created
\* or deleted and no file is copied.
C1SingleFileUntouched ==
    [][(pc \in {"prepare_files", "manage_files"} /\ Len(files) = 1)
        => /\ Consolidated'
           /\ outcome' = "running"
           /\ files_to_check' = files[1]
           /\ tempDir' = tempDir
           /\ srcFiles' = srcFiles
           /\ tempReport' = tempReport]_vars

\* one file was consolidated next to a stale temp_dir, which is still there
C1Witness ==
    /\ Consolidated
    /\ Len(files) = 1
    /\ files_to_check = files[1]
    /\ tempDir[files_dir].exists
    /\ tempDir[files_dir].entries # {}

----------------------------------------------------------------------------
(* Properties of the command *)

CmdBuilt == pc \in {"delete_dir", "old_delete_dir", "spawn"}

\* the text of c without its quotes
Unquote(c) == SelectSeq(c, LAMBDA a : a # QT)

\* the value that follows flag in c, up to the next space
FlagValue(c, flag) ==
    LET i == CHOOSE k \in 1..Len(c) : c[k] = flag
    IN  SplitFirst(SubSeq(c, i + 2, Len(c)))

\* the arguments a command line is split into: at the spaces outside quotes
RECURSIVE Arguments(_, _, _, _)
Arguments(c, cur, quoted, acc) ==
    IF c = <<>> THEN (IF cur = <<>> THEN acc ELSE Append(acc, cur))
    ELSE IF Head(c) = QT THEN Arguments(Tail(c), cur, ~quoted, acc)
    ELSE IF Head(c) = SP /\ ~quoted
         THEN Arguments(Tail(c), <<>>, FALSE, IF cur = <<>> THEN acc ELSE Append(acc, cur))
    ELSE Arguments(Tail(c), Append(cur, Head(c)), quoted, acc)

\* the preset the specification asks for
ExpectedPreset(sel) ==
    IF Len(sel) # 1 THEN <<"Full">>
    ELSE IF sel[1] = <<"Common", SP, "Errors">> THEN <<"Common">>
    ELSE IF sel[1] = <<"Consistency", SP, "Errors">> THEN <<"Consistency">>
    ELSE IF sel[1] = <<"Spelling", SP, "Errors">> THEN <<"Spelling">>
    ELSE <<"Full">>

\* C3: the resolved preset, and the value after -type in the command, is the
\* first word of the label when the selection is exactly one of Common Errors,
\* Consistency Errors, Spelling Errors, and Full in every other case; it is one
\* of Common, Consistency, Spelling, Full.
C3PresetResolution ==
    /\ determine_report_preset(selection) = ExpectedPreset(selection)
    /\ CmdBuilt =>
        /\ FlagValue(cmd, "-type") = ExpectedPreset(selection)
        /\ FlagValue(cmd, "-type") \in
               {<<"Common">>, <<"Consistency">>, <<"Spelling">>, <<"Full">>}

\* a command was built for the single label Consistency Errors
C3Witness ==
    /\ CmdBuilt
    /\ selection = <<ConsistencyErrors>>
    /\ FlagValue(cmd, "-type") = <<"Consistency">>

\* the part of the command every run has, without quotes
RequiredPart ==
    exe \o <<SP, "-files", SP>> \o PathStr(files_to_check)
    \o <<SP, "-profile", SP>> \o profile
    \o <<SP, "-startcheck", SP, "-type", SP>> \o ExpectedPreset(selection)

\* C4: the command is, in this order, the executable path, -files <input>,
\* -profile <profile>, -startcheck, -type <preset>; it ends with
\* -result <files_dir>/temp_report.xlsx exactly when manual_report is false and
\* has no -result flag when manual_report is true.
C4CommandShape ==
    CmdBuilt =>
        /\ manual => (Unquote(cmd) = RequiredPart /\ "-result" \notin Range(cmd))
        /\ ~manual =>
            Unquote(cmd) = RequiredPart \o <<SP, "-result", SP>>
                           \o files_dir \o <<"/", "temp_report.xlsx">>

\* a command with -result was built for a consolidated temp_dir
C4Witness ==
    /\ CmdBuilt
    /\ ~manual
    /\ files_to_check = TempDirPath(files_dir)
    /\ "-result" \in Range(cmd)
    /\ cmd[Len(cmd)] = "temp_report.xlsx"

\* C5: every path of the command (executable, -files, -profile and, when
\* present, -result) is quoted, so that a path with a space in it is one
\* argument of the engine's command line.
C5EveryPathOneArgument ==
    CmdBuilt =>
        LET args == Range(Arguments(cmd, <<>>, FALSE, <<>>))
        IN  /\ exe \in args
            /\ PathStr(files_to_check) \in args
            /\ profile \in args
            /\ ~manual => PathStr(TempReportPath(files_dir)) \in args

----------------------------------------------------------------------------
(* The report workbook *)

\* sheet.max_row below which a sheet is only Verifika's header (main.py line 460)
HeaderRows == 12

Header == <<"Header">>
EmptyStub == <<"Empty", SP, "Stub">>

SheetNames == {Header, CommonErrors, ConsistencyErrors, EmptyStub}
Rows == {HeaderRows - 1, HeaderRows, 20}
Sheets == [name : SheetNames, rows : Rows]

\* workbooks of one to MaxSheets sheets; a workbook has no two sheets of one name
Workbooks ==
    {w \in UNION {[1..n -> Sheets] : n \in 1..MaxSheets} :
        \A i, j \in 1..Len(w) : w[i].name = w[j].name => i = j}

\* wb.sheetnames: a new list of the titles
sheetnames(w) == [i \in 1..Len(w) |-> w[i].name]

\* wb[sheet_name]
sheet_of(w, sheet_name) == CHOOSE s \in Range(w) : s.name = sheet_name

\* wb.remove(sheet)
remove_sheet(w, sheet) == SelectSeq(w, LAMBDA s : s # sheet)

\* the loop with the header threshold one row too high
RECURSIVE filter_sheets_le(_, _, _)
filter_sheets_le(names, w, sheets_to_keep) ==
    IF names = <<>> THEN w
    ELSE LET sheet_name == Head(names)
             sheet == sheet_of(w, sheet_name)
         IN  IF sheet.rows <= HeaderRows
             THEN filter_sheets_le(Tail(names), remove_sheet(w, sheet), sheets_to_keep)
             ELSE IF FullLabel \notin Range(sheets_to_keep)
                     /\ sheet_name \notin Range(sheets_to_keep)
             THEN filter_sheets_le(Tail(names), remove_sheet(w, sheet), sheets_to_keep)
             ELSE filter_sheets_le(Tail(names), w, sheets_to_keep)

\* the loop without the test for "Full": sheets are always filtered by name
RECURSIVE filter_sheets_names(_, _, _)
filter_sheets_names(names, w, sheets_to_keep) ==
    IF names = <<>> THEN w
    ELSE LET sheet_name == Head(names)
             sheet == sheet_of(w, sheet_name)
         IN  IF sheet.rows < HeaderRows
             THEN filter_sheets_names(Tail(names), remove_sheet(w, sheet), sheets_to_keep)
             ELSE IF sheet_name \notin Range(sheets_to_keep)
             THEN filter_sheets_names(Tail(names), remove_sheet(w, sheet), sheets_to_keep)
             ELSE filter_sheets_names(Tail(names), w, sheets_to_keep)

\* main.process_and_save_report lines 457-464: the loop over wb.sheetnames
RECURSIVE filter_loop(_, _, _)
filter_loop(names, w, sheets_to_keep) ==
    IF names = <<>> THEN w
    ELSE LET sheet_name == Head(names)
             sheet == sheet_of(w, sheet_name)
         IN  IF sheet.rows < HeaderRows
             THEN filter_loop(Tail(names), remove_sheet(w, sheet), sheets_to_keep)
             ELSE IF FullLabel \notin Range(sheets_to_keep)
                     /\ sheet_name \notin Range(sheets_to_keep)
             THEN filter_loop(Tail(names), remove_sheet(w, sheet), sheets_to_keep)
             ELSE filter_loop(Tail(names), w, sheets_to_keep)

filter_sheets(names, w, sheets_to_keep) == filter_loop(names, w, sheets_to_keep)

----------------------------------------------------------------------------
(* main.process_and_save_report *)

\* line 454: load_workbook(temp_report_name); a file openpyxl cannot read raises
LoadWorkbook ==
    /\ pc = "load_workbook"
    /\ \/ /\ wb' = tempReport.sheets
          /\ pc' = "remove"
          /\ outcome' = outcome
       \/ /\ wb' = wb
          /\ pc' = "done"
          /\ outcome' = "InvalidFileException"
    /\ UNCHANGED <<inVars, fsVars>>
    /\ UNCHANGED <<files_to_check, cmd, engine, new_report_name, attempts, notices>>
    /\ UNCHANGED envVars

\* a removal that leaves the file where it is
remove_kept(f) == f

\* os.remove(path)
remove(f) == NoFile

\* line 455: remove(temp_report_name)
RemoveTempReport ==
    /\ pc = "remove"
    /\ tempReport' = remove(tempReport)
    /\ pc' = "filter"
    /\ UNCHANGED <<outcome, inVars, srcFiles, tempDir, saved, runVars>>
    /\ UNCHANGED envVars

\* lines 457-464
FilterSheets ==
    /\ pc = "filter"
    /\ wb' = filter_sheets(sheetnames(wb), wb, selection)
    /\ pc' = "check_sheets"
    /\ UNCHANGED <<outcome, inVars, fsVars>>
    /\ UNCHANGED <<files_to_check, cmd, engine, new_report_name, attempts, notices>>
    /\ UNCHANGED envVars

\* line 466: if len(wb_verifika.sheetnames) > 0
CheckSheets ==
    /\ pc = "check_sheets"
    /\ IF Len(sheetnames(wb)) > 0
       THEN pc' = "asksaveasfilename" /\ outcome' = outcome
       ELSE pc' = "done" /\ outcome' = "returned"
    /\ UNCHANGED <<inVars, fsVars, runVars>>
    /\ UNCHANGED envVars

\* lines 468-481: the dialog returns a name, or "" when the user cancels it; the
\* dialog opens no file, so the except clause of line 482 is never entered
AskSaveAsFilename ==
    /\ pc = "asksaveasfilename"
    /\ attempts' = attempts + 1
    /\ \E name \in {"", "QA report.xlsx"} :
        /\ new_report_name' = name
        /\ IF name = ""
           THEN pc' = "done" /\ outcome' = "exit"
           ELSE pc' = "save" /\ outcome' = outcome
    /\ UNCHANGED <<inVars, fsVars>>
    /\ UNCHANGED <<files_to_check, cmd, engine, wb, notices>>
    /\ UNCHANGED envVars

\* line 490: wb_verifika.save(new_report_name), outside the try of line 469; a
\* destination opened by another program raises PermissionError
SaveWorkbook ==
    /\ pc = "save"
    /\ \E locked \in BOOLEAN :
        IF locked
        THEN /\ pc' = "done"
             /\ outcome' = "PermissionError"
             /\ saved' = saved
        ELSE /\ pc' = "system"
             /\ outcome' = outcome
             /\ saved' = [exists |-> TRUE, sheets |-> wb]
    /\ UNCHANGED <<inVars, srcFiles, tempDir, tempReport, runVars>>
    /\ UNCHANGED envVars

\* line 493: system(f'"{new_report_name}"'), then the function returns
OpenReport ==
    /\ pc = "system"
    /\ pc' = "done"
    /\ outcome' = "returned"
    /\ UNCHANGED <<inVars, fsVars, runVars>>
    /\ UNCHANGED envVars

NextReport ==
    \/ LoadWorkbook
    \/ RemoveTempReport
    \/ FilterSheets
    \/ CheckSheets
    \/ AskSaveAsFilename
    \/ SaveWorkbook
    \/ OpenReport

\* process_and_save_report is entered with the report the engine has written
InitReport ==
    /\ pc = "load_workbook"
    /\ files = <<[dir |-> <<"C:/f">>, name |-> <<"a.xliff">>]>>
    /\ files_dir = files[1].dir
    /\ files_to_check = files[1]
    /\ srcFiles = AllSources
    /\ tempDir = NoTempDirs
    /\ tempReport \in {[exists |-> TRUE, sheets |-> w] : w \in Workbooks}
    /\ saved = NoFile
    /\ exe = <<"C:/v/verifika.exe">>
    /\ profile = <<"C:/p/x.vprofile">>
    /\ selection \in select_report_type
    /\ manual = FALSE
    /\ cmd = run_qa_cmd(files_dir, exe, files_to_check, profile, selection, manual)
    /\ engine = "exit 0"
    /\ wb = <<>>
    /\ new_report_name = "unset"
    /\ attempts = 0
    /\ notices = {}
    /\ outcome = "running"
    /\ program = "main"
    /\ IdleEnv

SpecReport == InitReport /\ [][NextReport]_vars

----------------------------------------------------------------------------
(* main.run_qa after the command is built, and main.main *)

Exited == {"exit 0", "exit 1"}

\* reports the engine writes in the runs of the whole program
EngineReports ==
    {<<[name |-> Header, rows |-> 11], [name |-> CommonErrors, rows |-> 20],
       [name |-> EmptyStub, rows |-> 11]>>,
     <<[name |-> ConsistencyErrors, rows |-> 12], [name |-> Header, rows |-> 20]>>,
     <<[name |-> Header, rows |-> 11]>>}

\* a report left behind by an earlier run
StaleReport == <<[name |-> CommonErrors, rows |-> 20]>>

\* selections of the runs of the whole program
RunSelections ==
    {<<FullLabel>>, <<ConsistencyErrors>>, SpellingGrammar,
     <<CommonErrors, ConsistencyErrors>>}

\* main.py line 430, qa_command_utils.py line 51, old_verifika.py line 68:
\* Popen(cmd_command, stdout=DEVNULL, stderr=STDOUT); the OS may refuse to start
\* the executable
Spawn ==
    /\ pc = "spawn"
    /\ \/ /\ engine' = "running"
          /\ child' = popen_streams("DEVNULL", "STDOUT")
          /\ pc' = "wait"
          /\ outcome' = outcome
       \/ /\ engine' = engine
          /\ child' = child
          /\ pc' = "done"
          /\ outcome' = "OSError"
    /\ UNCHANGED <<inVars, fsVars>>
    /\ UNCHANGED <<files_to_check, cmd, wb, new_report_name, attempts, notices>>
    /\ UNCHANGED <<program, procs, process, answers, dialogs, config_file, config_ini>>
    /\ UNCHANGED <<console, start>>

\* what the engine prints on its standard error when it fails
EngineError == "engine error"

\* the engine, an opaque child process: it exits with any code, a failure (a
\* code other than 0) being reported on its standard error, and, when -result
\* was given and it found errors, has written the report
EngineExits ==
    /\ engine = "running"
    /\ engine' \in Exited
    /\ console' = IF engine' = "exit 1"
                  THEN console \cup shown(child.stderr, EngineError)
                  ELSE console
    /\ IF "-result" \in Range(cmd)
       THEN tempReport' \in
                {tempReport} \cup {[exists |-> TRUE, sheets |-> w] : w \in EngineReports}
       ELSE tempReport' = tempReport
    /\ UNCHANGED <<pc, outcome, inVars, srcFiles, tempDir, saved>>
    /\ UNCHANGED <<files_to_check, cmd, wb, new_report_name, attempts, notices>>
    /\ UNCHANGED <<program, procs, process, answers, dialogs, config_file, config_ini>>
    /\ UNCHANGED <<child, start>>

\* line 432: proc.wait() returns once the child has exited
child_exited(e) == e \in Exited

\* main.run_qa goes on with its line 437; verifika.verifika (line 61) and
\* old_verifika.verifika (line 120) call report_processing.process_report
Wait ==
    /\ pc = "wait"
    /\ child_exited(engine)
    /\ pc' = IF program = "main" THEN "rmtree" ELSE "process_report"
    /\ UNCHANGED <<outcome, inVars, fsVars, runVars>>
    /\ UNCHANGED envVars

\* lines 437-439: if isdir(temp_dir): rmtree(temp_dir)
RemoveTempDir ==
    /\ pc = "rmtree"
    /\ IF tempDir[files_dir].exists
       THEN IF tempDir[files_dir].locked
            THEN /\ \E S \in SUBSET tempDir[files_dir].entries :
                        tempDir' = [tempDir EXCEPT ![files_dir].entries = S]
                 /\ pc' = "done"
                 /\ outcome' = "PermissionError"
            ELSE /\ tempDir' = [tempDir EXCEPT ![files_dir] = TempAbsent]
                 /\ pc' = "check_report"
                 /\ outcome' = outcome
       ELSE /\ tempDir' = tempDir
            /\ pc' = "check_report"
            /\ outcome' = outcome
    /\ UNCHANGED <<inVars, srcFiles, tempReport, saved, runVars>>
    /\ UNCHANGED envVars

\* the notice shown whenever the report is missing, manual optimization or not
check_report_always(report_exists, manual_opt) ==
    IF ~report_exists
    THEN [pc |-> "done", outcome |-> "exit", notices |-> {"No report saved"}]
    ELSE [pc |-> "load_workbook", outcome |-> "running", notices |-> {}]

\* lines 441-446: what follows the engine's exit
check_report(report_exists, manual_opt) ==
    IF ~report_exists
    THEN IF ~manual_opt
         THEN [pc |-> "done", outcome |-> "exit", notices |-> {"No report saved"}]
         ELSE [pc |-> "done", outcome |-> "returned", notices |-> {}]
    ELSE [pc |-> "load_workbook", outcome |-> "running", notices |-> {}]

CheckReport ==
    /\ pc = "check_report"
    /\ LET r == check_report(tempReport.exists, manual)
       IN  /\ pc' = r.pc
           /\ outcome' = r.outcome
           /\ notices' = notices \cup r.notices
    /\ UNCHANGED <<inVars, fsVars>>
    /\ UNCHANGED <<files_to_check, cmd, engine, wb, new_report_name, attempts>>
    /\ UNCHANGED envVars

\* main.main after the dialogs: the files of one dialog, a selection, the flag
Init ==
    /\ pc = "manage_files"
    /\ files \in {fls \in FileSeqs : SameDir(fls)}
    /\ files_dir = files[1].dir
    /\ srcFiles = AllSources
    /\ tempDir \in {[NoTempDirs EXCEPT ![files_dir] = t] :
                       t \in {TempAbsent,
                              [exists |-> TRUE, locked |-> FALSE,
                               entries |-> StaleEntries(StaleNames)]}}
    /\ tempReport \in {NoFile, [exists |-> TRUE, sheets |-> StaleReport]}
    /\ saved = NoFile
    /\ files_to_check = NoPath
    /\ exe = <<"C:/v/verifika.exe">>
    /\ profile = <<"C:/p/x.vprofile">>
    /\ selection \in RunSelections
    /\ manual \in BOOLEAN
    /\ IdleRun
    /\ program = "main"
    /\ IdleEnv

Next ==
    \/ ManageFiles
    \/ RunQaCommand
    \/ Spawn
    \/ EngineExits
    \/ Wait
    \/ RemoveTempDir
    \/ CheckReport
    \/ LoadWorkbook
    \/ RemoveTempReport
    \/ FilterSheets
    \/ CheckSheets
    \/ AskSaveAsFilename
    \/ SaveWorkbook
    \/ OpenReport

Spec == Init /\ [][Next]_vars

----------------------------------------------------------------------------
(* The precheck for a running engine *)

precheckVars == <<procs, process, answers>>
configVars == <<config_file, config_ini>>
otherEnv == <<program, child, console, start>>

\* file_browsing._close_verifika lines 97-100
IsVerifikaRunning ==
    /\ pc = "close_verifika"
    /\ program = "verifika"
    /\ process' = is_verifika_running(procs)
    /\ pc' = IF process' = 0 THEN "browse_verifika" ELSE "question"
    /\ UNCHANGED <<outcome, inVars, fsVars, runVars>>
    /\ UNCHANGED <<procs, answers, dialogs, configVars, otherEnv>>

\* file_browsing._close_verifika lines 102-110
Question ==
    /\ pc = "question"
    /\ program = "verifika"
    /\ \E reply \in Replies :
        /\ answers' = Append(answers, reply)
        /\ IF question(reply) = "No"
           THEN pc' = "done" /\ outcome' = "exit"
           ELSE pc' = "kill" /\ outcome' = outcome
    /\ UNCHANGED <<inVars, fsVars, runVars>>
    /\ UNCHANGED <<procs, process, dialogs, configVars, otherEnv>>

\* main.close_verifika lines 316-317: the loop goes to the next process named
\* "Verifika.exe", or ends
CloseVerifika ==
    /\ pc = "close_verifika"
    /\ program = "main"
    /\ process' = next_verifika(procs, process)
    /\ pc' = IF process' = 0 THEN "browse_verifika" ELSE "question"
    /\ UNCHANGED <<outcome, inVars, fsVars, runVars>>
    /\ UNCHANGED <<procs, answers, dialogs, configVars, otherEnv>>

\* main.close_verifika lines 319-328
AskYesNo ==
    /\ pc = "question"
    /\ program = "main"
    /\ \E reply \in Replies :
        /\ answers' = Append(answers, reply)
        /\ IF ~askyesno(reply)
           THEN pc' = "done" /\ outcome' = "exit"
           ELSE pc' = "kill" /\ outcome' = outcome
    /\ UNCHANGED <<inVars, fsVars, runVars>>
    /\ UNCHANGED <<procs, process, dialogs, configVars, otherEnv>>

\* file_browsing._close_verifika lines 112-116 and main.close_verifika lines
\* 330-335: NoSuchProcess is caught and passed over; main's loop goes on
Kill ==
    /\ pc = "kill"
    /\ procs' = kill(procs, process).procs
    /\ pc' = IF program = "main" THEN "close_verifika" ELSE "browse_verifika"
    /\ UNCHANGED <<outcome, inVars, fsVars, runVars>>
    /\ UNCHANGED <<process, answers, dialogs, configVars, otherEnv>>

\* a running engine is closed by its user, or ends, while the question is open
\* or before the kill
ProcessExits ==
    /\ pc \in {"question", "kill"}
    /\ \E i \in 1..Len(procs) :
        /\ procs[i].state = "running"
        /\ lower(procs[i].name) = "verifika.exe"
        /\ procs' = [procs EXCEPT ![i].state = "exited"]
    /\ UNCHANGED <<pc, outcome, inVars, fsVars, runVars>>
    /\ UNCHANGED <<process, answers, dialogs, configVars, otherEnv>>

----------------------------------------------------------------------------
(* The dialogs *)

Shown(name, reply) == Append(dialogs, [dialog |-> name, reply |-> reply])

\* the directory the user picks the files from, and what a file dialog returns
RunDir == <<"C:/my", SP, "files">>
RunFileChoices ==
    {<<[dir |-> RunDir, name |-> <<"a.xliff">>]>>,
     <<[dir |-> RunDir, name |-> <<"a.xliff">>], [dir |-> RunDir, name |-> <<"b.xliff">>]>>}

\* file_browsing.browse_verifika lines 75-91
BrowseVerifika ==
    /\ pc = "browse_verifika"
    /\ program = "verifika"
    /\ LET verifika_exe == config_file.verifika_location IN
       IF is_file(verifika_exe)
       THEN /\ exe' = verifika_exe
            /\ pc' = "browse_files"
            /\ UNCHANGED <<outcome, dialogs, configVars>>
       ELSE \E new_verifika_exe \in {NoValue} \cup ExePaths :
               IF new_verifika_exe = NoValue
               THEN /\ dialogs' = Shown("browse_verifika", "cancel")
                    /\ pc' = "done"
                    /\ outcome' = "exit"
                    /\ UNCHANGED <<exe, configVars>>
               ELSE LET u == update_config(config_file, config_ini,
                                           "verifika_location", new_verifika_exe)
                    IN  /\ dialogs' = Shown("browse_verifika", "ok")
                        /\ config_file' = u.config_file
                        /\ config_ini' = u.config_ini
                        /\ exe' = new_verifika_exe
                        /\ pc' = "browse_files"
                        /\ outcome' = outcome
    /\ UNCHANGED <<files, files_dir, profile, selection, manual>>
    /\ UNCHANGED <<fsVars, runVars, precheckVars, otherEnv>>

\* main.browse_verifika lines 261-278
MainBrowseVerifika ==
    /\ pc = "browse_verifika"
    /\ program = "main"
    /\ LET verifika_exe_location == config_file.verifika_location IN
       IF verifika_exe_location # NoValue /\ is_file(verifika_exe_location)
       THEN /\ exe' = verifika_exe_location
            /\ pc' = "browse_files"
            /\ UNCHANGED <<outcome, dialogs, configVars>>
       ELSE \E location \in {NoValue} \cup ExePaths :
               IF location = NoValue
               THEN /\ dialogs' = Shown("browse_verifika", "cancel")
                    /\ pc' = "done"
                    /\ outcome' = "exit"
                    /\ UNCHANGED <<exe, configVars>>
               ELSE LET u == main_update_config(config_file, config_ini,
                                                "verifika_location", location)
                    IN  /\ dialogs' = Shown("browse_verifika", "ok")
                        /\ config_file' = u.config_file
                        /\ config_ini' = u.config_ini
                        /\ exe' = location
                        /\ pc' = "browse_files"
                        /\ outcome' = outcome
    /\ UNCHANGED <<files, files_dir, profile, selection, manual>>
    /\ UNCHANGED <<fsVars, runVars, precheckVars, otherEnv>>

\* file_browsing.browse_files lines 19-28
BrowseFiles ==
    /\ pc = "browse_files"
    /\ program = "verifika"
    /\ \E chosen \in {<<>>} \cup RunFileChoices :
        IF chosen = <<>>
        THEN /\ dialogs' = Shown("browse_files", "cancel")
             /\ pc' = "done"
             /\ outcome' = "exit"
             /\ UNCHANGED <<files, files_dir>>
        ELSE /\ dialogs' = Shown("browse_files", "ok")
             /\ files' = chosen
             /\ files_dir' = chosen[1].dir
             /\ pc' = "browse_verifika_profile"
             /\ outcome' = outcome
    /\ UNCHANGED <<exe, profile, selection, manual>>
    /\ UNCHANGED <<fsVars, runVars, precheckVars, configVars, otherEnv>>

\* main.select_files lines 342-352: files[0] is read before files is tested
SelectFiles ==
    /\ pc = "browse_files"
    /\ program = "main"
    /\ \E chosen \in {<<>>} \cup RunFileChoices :
        IF chosen = <<>>
        THEN /\ dialogs' = Shown("browse_files", "cancel")
             /\ pc' = "done"
             /\ outcome' = "IndexError"
             /\ UNCHANGED <<files, files_dir>>
        ELSE /\ dialogs' = Shown("browse_files", "ok")
             /\ files' = chosen
             /\ files_dir' = chosen[1].dir
             /\ pc' = "browse_verifika_profile"
             /\ outcome' = outcome
    /\ UNCHANGED <<exe, profile, selection, manual>>
    /\ UNCHANGED <<fsVars, runVars, precheckVars, configVars, otherEnv>>

\* file_browsing.browse_verifika_profile lines 42-58
BrowseVerifikaProfile ==
    /\ pc = "browse_verifika_profile"
    /\ program = "verifika"
    /\ \/ /\ dialogs' = Shown("browse_verifika_profile", "cancel")
          /\ pc' = "done"
          /\ outcome' = "exit"
          /\ UNCHANGED <<profile, configVars>>
       \/ \E verifika_profile \in ProfileFiles :
            LET new_profiles_dir == verifika_profile.dir
                u == update_config(config_file, config_ini,
                                   "verifika_profiles_location", new_profiles_dir)
            IN  /\ dialogs' = Shown("browse_verifika_profile", "ok")
                /\ config_file' = u.config_file
                /\ config_ini' = u.config_ini
                /\ profile' = PathStr(verifika_profile)
                /\ pc' = "report_type"
                /\ outcome' = outcome
    /\ UNCHANGED <<files, files_dir, exe, selection, manual>>
    /\ UNCHANGED <<fsVars, runVars, precheckVars, otherEnv>>

\* main.browse_verifika_profile lines 285-310
MainBrowseVerifikaProfile ==
    /\ pc = "browse_verifika_profile"
    /\ program = "main"
    /\ \/ /\ dialogs' = Shown("browse_verifika_profile", "cancel")
          /\ pc' = "done"
          /\ outcome' = "exit"
          /\ UNCHANGED <<profile, configVars>>
       \/ \E verifika_profile \in ProfileFiles :
            LET profiles_directory == config_file.verifika_profiles_location
                u == IF profiles_directory = NoValue \/ ~isdir(profiles_directory)
                     THEN main_update_config(config_file, config_ini,
                                             "verifika_profiles_location",
                                             verifika_profile.dir)
                     ELSE [config_file |-> config_file, config_ini |-> config_ini]
            IN  /\ dialogs' = Shown("browse_verifika_profile", "ok")
                /\ config_file' = u.config_file
                /\ config_ini' = u.config_ini
                /\ profile' = PathStr(verifika_profile)
                /\ pc' = "report_type"
                /\ outcome' = outcome
    /\ UNCHANGED <<files, files_dir, exe, selection, manual>>
    /\ UNCHANGED <<fsVars, runVars, precheckVars, otherEnv>>

\* verifika.verifika lines 42-50: the selector window; no error type chosen
\* ends the run
ReportTypeSelector ==
    /\ pc = "report_type"
    /\ program = "verifika"
    /\ \/ /\ dialogs' = Shown("report_type", "cancel")
          /\ pc' = "done"
          /\ outcome' = "exit"
          /\ UNCHANGED <<selection, manual>>
       \/ /\ dialogs' = Shown("report_type", "ok")
          /\ selection' \in RunSelections
          /\ manual' \in BOOLEAN
          /\ pc' = "prepare_files"
          /\ outcome' = outcome
    /\ UNCHANGED <<files, files_dir, exe, profile>>
    /\ UNCHANGED <<fsVars, runVars, precheckVars, configVars, otherEnv>>

\* main.select_report_type lines 102-169 with checkbuttons_window: Confirm needs
\* a ticked box, and closing the window of the custom report is sys.exit
\* (line 248)
SelectReportType ==
    /\ pc = "report_type"
    /\ program = "main"
    /\ \/ /\ dialogs' = Shown("report_type", "cancel")
          /\ pc' = "done"
          /\ outcome' = "exit"
          /\ UNCHANGED <<selection, manual>>
       \/ /\ dialogs' = Shown("report_type", "ok")
          /\ selection' \in RunSelections
          /\ manual' \in BOOLEAN
          /\ pc' = "manage_files"
          /\ outcome' = outcome
    /\ UNCHANGED <<files, files_dir, exe, profile>>
    /\ UNCHANGED <<fsVars, runVars, precheckVars, configVars, otherEnv>>

----------------------------------------------------------------------------
(* verifika.verifika and old_verifika.verifika between the command and the engine *)

\* verifika.verifika line 58: delete_dir(Path(files_dir, "temp_dir"))
DeleteDir ==
    /\ pc = "delete_dir"
    /\ tempDir' \in delete_dir(tempDir, files_dir)
    /\ pc' = "spawn"
    /\ UNCHANGED <<outcome, inVars, srcFiles, tempReport, saved, runVars, envVars>>

\* rmtree(files_dir, ignore_errors=True): the input files and temp_report.xlsx
\* of the directory go, and its temp_dir as far as the OS lets it; a directory
\* left without entries stands for the removed directory
delete_files_dir(src, td, d) ==
    {[srcFiles |-> [src EXCEPT ![d] = {}], tempDir |-> t, tempReport |-> NoFile] :
        t \in delete_dir(td, d)}

\* old_verifika.verifika line 116: delete_dir(files_dir)
OldDeleteDir ==
    /\ pc = "old_delete_dir"
    /\ \E r \in delete_files_dir(srcFiles, tempDir, files_dir) :
        /\ srcFiles' = r.srcFiles
        /\ tempDir' = r.tempDir
        /\ tempReport' = r.tempReport
    /\ pc' = "spawn"
    /\ UNCHANGED <<outcome, inVars, saved, runVars, envVars>>

----------------------------------------------------------------------------
(* Whole runs of the three entry points *)

\* what config.ini holds when a run starts
StoredConfigs ==
    {[verifika_location |-> e, verifika_profiles_location |-> d] :
        e \in {NoValue, <<"C:/v/verifika.exe">>}, d \in {NoValue, <<"C:/p">>, GoneDir}}

RunTempStates ==
    {TempAbsent} \cup
    {[exists |-> TRUE, locked |-> l, entries |-> StaleEntries(StaleNames)] : l \in BOOLEAN}

\* verifika.verifika and main.main after the precheck found no engine running;
\* old_verifika.verifika from its line 110, after the dialogs of its gui module
InitRun ==
    /\ program \in {"verifika", "main", "old_verifika"}
    /\ \/ /\ program \in {"verifika", "main"}
          /\ pc = "browse_verifika"
          /\ files = <<>>
          /\ files_dir = NoValue
          /\ exe = NoValue
          /\ profile = NoValue
          /\ selection = <<>>
          /\ manual = FALSE
       \/ /\ program = "old_verifika"
          /\ pc = "prepare_files"
          /\ files \in RunFileChoices
          /\ files_dir = files[1].dir
          /\ exe = <<"C:/v/verifika.exe">>
          /\ profile = <<"C:/p/x.vprofile">>
          /\ selection \in RunSelections
          /\ manual \in BOOLEAN
    /\ srcFiles = AllSources
    /\ tempDir \in {[NoTempDirs EXCEPT ![RunDir] = t] : t \in RunTempStates}
    /\ tempReport \in {NoFile, [exists |-> TRUE, sheets |-> StaleReport]}
    /\ saved = NoFile
    /\ files_to_check = NoPath
    /\ IdleRun
    /\ procs = <<>>
    /\ process = 0
    /\ answers = <<>>
    /\ dialogs = <<>>
    /\ config_file \in StoredConfigs
    /\ config_ini \in {[values |-> config_file, layout |-> l, writes |-> 0] : l \in Layouts}
    /\ child = NoChild
    /\ console = {}
    /\ start = [srcFiles |-> srcFiles, tempDir |-> tempDir, tempReport |-> tempReport,
                config_ini |-> config_ini]

NextRun ==
    \/ BrowseVerifika
    \/ MainBrowseVerifika
    \/ BrowseFiles
    \/ SelectFiles
    \/ BrowseVerifikaProfile
    \/ MainBrowseVerifikaProfile
    \/ ReportTypeSelector
    \/ SelectReportType
    \/ PrepareFiles
    \/ GenerateQaCommand
    \/ DeleteDir
    \/ GenerateCmdCommand
    \/ OldDeleteDir
    \/ ManageFiles
    \/ RunQaCommand
    \/ Spawn
    \/ EngineExits
    \/ Wait
    \/ RemoveTempDir
    \/ CheckReport
    \/ LoadWorkbook
    \/ RemoveTempReport
    \/ FilterSheets
    \/ CheckSheets
    \/ AskSaveAsFilename
    \/ SaveWorkbook
    \/ OpenReport

SpecRun == InitRun /\ [][NextRun]_vars

\* verifika.verifika and main.main from their first step, with any processes
\* on the machine
InitPrecheck ==
    /\ program \in {"verifika", "main"}
    /\ pc = "close_verifika"
    /\ files = <<>>
    /\ files_dir = NoValue
    /\ exe = NoValue
    /\ profile = NoValue
    /\ selection = <<>>
    /\ manual = FALSE
    /\ srcFiles = AllSources
    /\ tempDir = NoTempDirs
    /\ tempReport = NoFile
    /\ saved = NoFile
    /\ files_to_check = NoPath
    /\ IdleRun
    /\ procs \in ProcTables
    /\ process = 0
    /\ answers = <<>>
    /\ dialogs = <<>>
    /\ config_file = [verifika_location |-> <<"C:/v/verifika.exe">>,
                      verifika_profiles_location |-> NoValue]
    /\ config_ini = [values |-> config_file, layout |-> "written", writes |-> 0]
    /\ child = NoChild
    /\ console = {}
    /\ start = [srcFiles |-> srcFiles, tempDir |-> tempDir, tempReport |-> tempReport,
                config_ini |-> config_ini]

NextPrecheck ==
    \/ IsVerifikaRunning
    \/ Question
    \/ CloseVerifika
    \/ AskYesNo
    \/ Kill
    \/ ProcessExits
    \/ BrowseVerifika
    \/ MainBrowseVerifika
    \/ BrowseFiles
    \/ SelectFiles
    \/ BrowseVerifikaProfile
    \/ MainBrowseVerifikaProfile
    \/ ReportTypeSelector
    \/ SelectReportType
    \/ PrepareFiles
    \/ GenerateQaCommand
    \/ DeleteDir
    \/ ManageFiles
    \/ RunQaCommand
    \/ Spawn
    \/ EngineExits
    \/ Wait
    \/ RemoveTempDir
    \/ CheckReport
    \/ LoadWorkbook
    \/ RemoveTempReport
    \/ FilterSheets
    \/ CheckSheets
    \/ AskSaveAsFilename
    \/ SaveWorkbook
    \/ OpenReport

SpecPrecheck == InitPrecheck /\ [][NextPrecheck]_vars

----------------------------------------------------------------------------
(* update_config on its own *)

InitConfig ==
    /\ pc \in {"update_config", "main_update_config"}
    /\ program = (IF pc = "update_config" THEN "verifika" ELSE "main")
    /\ files = <<>>
    /\ files_dir = NoValue
    /\ exe = NoValue
    /\ profile = NoValue
    /\ selection = <<>>
    /\ manual = FALSE
    /\ srcFiles = AllSources
    /\ tempDir = NoTempDirs
    /\ tempReport = NoFile
    /\ saved = NoFile
    /\ files_to_check = NoPath
    /\ IdleRun
    /\ procs = <<>>
    /\ process = 0
    /\ answers = <<>>
    /\ dialogs = <<>>
    /\ config_file \in [Options -> ConfigValues]
    /\ config_ini \in {[values |-> config_file, layout |-> l, writes |-> 0] : l \in Layouts}
    /\ child = NoChild
    /\ console = {}
    /\ start = [srcFiles |-> srcFiles, tempDir |-> tempDir, tempReport |-> tempReport,
                config_ini |-> config_ini]

\* a call of verifika_config.update_config(config_file, "DEFAULT", option, value)
UpdateConfig ==
    /\ pc = "update_config"
    /\ \E option \in Options, value \in ConfigValues \ {NoValue} :
        LET u == update_config(config_file, config_ini, option, value)
        IN  /\ config_file' = u.config_file
            /\ config_ini' = u.config_ini
    /\ pc' = "done"
    /\ outcome' = "returned"
    /\ UNCHANGED <<inVars, fsVars, runVars, precheckVars, dialogs, otherEnv>>

\* a call of main.update_config(config_file, "DEFAULT", option, value)
MainUpdateConfig ==
    /\ pc = "main_update_config"
    /\ \E option \in Options, value \in ConfigValues \ {NoValue} :
        LET u == main_update_config(config_file, config_ini, option, value)
        IN  /\ config_file' = u.config_file
            /\ config_ini' = u.config_ini
    /\ pc' = "done"
    /\ outcome' = "returned"
    /\ UNCHANGED <<inVars, fsVars, runVars, precheckVars, dialogs, otherEnv>>

NextConfig == UpdateConfig \/ MainUpdateConfig

SpecConfig == InitConfig /\ [][NextConfig]_vars

----------------------------------------------------------------------------
(* Properties of the report filter *)

\* the sheets of w with at least 12 rows
WithContent(w) == SelectSeq(w, LAMBDA s : s.rows >= 12)

\* C6: when the selection is not Full, a sheet is removed if and only if it has
\* fewer than 12 rows or its name is not a requested label; the sheets left are
\* those of at least 12 rows whose name is requested, in their original order.
C6KeepsRequestedSheets ==
    [][(pc = "filter" /\ FullLabel \notin Range(selection))
        => wb' = SelectSeq(wb, LAMBDA s : s.rows >= 12 /\ s.name \in Range(selection))]_vars

\* the selection Common Errors has left the one sheet Common Errors of 20 rows
C6Witness ==
    /\ pc = "check_sheets"
    /\ selection = <<CommonErrors>>
    /\ wb = <<[name |-> CommonErrors, rows |-> 20]>>

\* C7, as stated: whenever the preset resolved from the selection is Full, no
\* sheet of at least 12 rows is removed, whatever its name.
C7FullPresetKeepsContent ==
    [][(pc = "filter" /\ determine_report_preset(selection) = <<"Full">>)
        => wb' = WithContent(wb)]_vars

\* C7, amended: whenever the selection holds the label Full, no sheet of at
\* least 12 rows is removed, whatever its name; only the sheets of fewer than 12
\* rows are.
C7FullLabelKeepsContent ==
    [][(pc = "filter" /\ FullLabel \in Range(selection))
        => wb' = WithContent(wb)]_vars

\* under Full a sheet that is no label has been kept next to another sheet
C7Witness ==
    /\ pc = "check_sheets"
    /\ selection = <<FullLabel>>
    /\ Len(wb) >= 2
    /\ \E i \in 1..Len(wb) : wb[i].name = Header

----------------------------------------------------------------------------
(* Properties of the save *)

\* C8: a permission error of the save is shown and the destination is asked
\* again, until a save succeeds or the user cancels; no permission error leaves
\* process_and_save_report, and a run that asked for a destination and was not
\* cancelled has saved the workbook.
C8SaveIsRetried ==
    /\ outcome # "PermissionError"
    /\ (pc = "done" /\ attempts > 0 /\ outcome # "exit") => saved.exists

----------------------------------------------------------------------------
(* Properties of the whole run *)

AfterWait ==
    {"rmtree", "check_report", "load_workbook", "remove", "filter", "check_sheets",
     "asksaveasfilename", "save", "system"}

\* C9: the program goes on only once the child has exited, whatever its exit
\* code; then, report absent and manual false: the notice, and the run ends with
\* nothing saved; report absent and manual true: the run ends with no notice;
\* the report is processed only when it is present.
C9OutcomeAfterEngineExit ==
    /\ [](pc \in AfterWait => engine \in Exited)
    /\ [][pc = "check_report" =>
            IF tempReport.exists
            THEN pc' = "load_workbook" /\ notices' = notices /\ outcome' = "running"
            ELSE /\ pc' = "done"
                 /\ saved' = saved
                 /\ wb' = wb
                 /\ IF manual
                    THEN notices' = notices /\ outcome' = "returned"
                    ELSE notices' = notices \cup {"No report saved"}
                         /\ outcome' = "exit"]_vars
    /\ [][pc' = "load_workbook" =>
            pc = "check_report" /\ tempReport.exists /\ engine \in Exited]_vars

\* the engine exited with a code other than 0 and wrote no report: the notice
C9Witness ==
    /\ pc = "done"
    /\ engine = "exit 1"
    /\ ~manual
    /\ ~tempReport.exists
    /\ outcome = "exit"
    /\ notices = {"No report saved"}
    /\ ~saved.exists

\* C10: in every final state of a run, ended in success, in a cancellation or
\* in a failure, neither temp_dir nor temp_report.xlsx exists next to the files.
C10NoArtifactsLeft ==
    pc = "done" => (~tempDir[files_dir].exists /\ ~tempReport.exists)

----------------------------------------------------------------------------
(* Properties of the precheck *)

\* the name of the engine's executable
EngineName == "Verifika.exe"

EngineRunning == \E i \in 1..Len(procs) : procs[i].name = EngineName /\ procs[i].state = "running"

LastAnswer == answers[Len(answers)]

\* the user answered No to the last question, or dismissed it
Declined == answers # <<>> /\ LastAnswer \in {"no", "dismiss"}

\* C11: when a process with the engine's executable name runs at the start of
\* a run, the user is asked whether to terminate it.  On No, or when the question
\* is dismissed, the whole run is aborted: the instance is not killed, no file
\* dialog is shown, no temp_dir is created and no engine is spawned.  Only on Yes
\* is the instance killed, and then the run goes on.
C11PrecheckAbortsUnlessYes ==
    /\ [][(pc = "close_verifika" /\ answers = <<>> /\ EngineRunning)
            => (pc' = "question" /\ lower(procs[process'].name) = "verifika.exe")]_vars
    /\ [][answers' # answers
            => IF answers'[Len(answers')] = "yes"
               THEN pc' = "kill" /\ outcome' = "running"
               ELSE pc' = "done" /\ outcome' = "exit" /\ procs' = procs]_vars
    /\ [](Declined
            => /\ pc = "done"
               /\ outcome = "exit"
               /\ procs[process].state # "killed"
               /\ dialogs = <<>>
               /\ tempDir = start.tempDir
               /\ engine = "none"
               /\ cmd = <<>>)
    /\ [][\A i \in 1..Len(procs) :
            (procs'[i].state = "killed" /\ procs[i].state # "killed")
                => /\ pc = "kill"
                   /\ i = process
                   /\ LastAnswer = "yes"
                   /\ pc' \in {"close_verifika", "browse_verifika"}
                   /\ outcome' = "running"]_vars
    /\ [][(pc = "kill" /\ pc' # "kill")
            => procs'[process].state \in {"killed", "exited"}]_vars

\* the question about a running Verifika.exe was dismissed: the run has ended
\* and the instance still runs
C11Witness ==
    /\ pc = "done"
    /\ outcome = "exit"
    /\ answers = <<"dismiss">>
    /\ process > 0
    /\ procs[process].name = EngineName
    /\ procs[process].state = "running"
    /\ dialogs = <<>>

----------------------------------------------------------------------------
(* Properties of the configuration *)

\* C12: update_config rewrites config.ini only when the new value differs from
\* the value stored for the option; when the value is equal, neither the
\* configuration in memory nor the file on disk changes.
C12WrittenOnlyWhenDifferent ==
    [][config_ini' # config_ini => config_file' # config_file]_vars

----------------------------------------------------------------------------
(* Properties of a cancelled run *)

\* the user cancelled a dialog of the pipeline
Cancelled ==
    \/ \E i \in 1..Len(dialogs) : dialogs[i].reply = "cancel"
    \/ new_report_name = ""

\* C13: when the user cancels a dialog of the pipeline (executable, files,
\* profile, report type, save destination), the run ends there with a normal
\* exit and no error, and config.ini, temp_dir and temp_report.xlsx are as they
\* were when the run started.
C13CancelLeavesNothing ==
    Cancelled
        => /\ pc = "done"
           /\ outcome = "exit"
           /\ config_ini = start.config_ini
           /\ tempDir = start.tempDir
           /\ tempReport = start.tempReport

----------------------------------------------------------------------------
(* Properties of the child's standard streams *)

\* C14: the child is spawned with its standard output discarded and its
\* standard error still delivered to the user's console, so that an error the
\* engine prints on its standard error is shown there.
C14ErrorsReachTheConsole ==
    /\ engine # "none" => (child.stdout = "devnull" /\ child.stderr = "console")
    /\ engine = "exit 1" => EngineError \in console

----------------------------------------------------------------------------
(* Properties of the deletion of temp_dir *)

\* the steps that delete temp_dir: before the consolidation and after the engine
DeletionSteps == {"prepare_files", "manage_files", "delete_dir", "rmtree"}

\* C15: deleting temp_dir never raises, be the directory absent, deletable or
\* not deletable, before the consolidation and after the engine has finished;
\* no run is aborted by an error of the deletion.
C15DeletionNeverRaises ==
    [][(pc \in DeletionSteps) => (outcome' # "PermissionError")]_vars

----------------------------------------------------------------------------
(* Properties of the order of the report's steps *)

\* the workbook is in memory and the function has gone on, up to its end
FromFiltering ==
    \/ pc \in {"filter", "check_sheets", "asksaveasfilename", "save", "system"}
    \/ pc = "done" /\ outcome # "InvalidFileException"

\* C16: once temp_report.xlsx has been loaded into memory it is deleted before
\* any sheet is filtered and before any save dialog is shown: it is deleted in
\* the step after the load and by no other, and from the filtering on, up to
\* the end of the run (no sheet left, save dialog cancelled, save failed,
\* report saved), temp_report.xlsx does not exist.
C16ReportDeletedOnceLoaded ==
    /\ [](FromFiltering => ~tempReport.exists)
    /\ [][(pc = "load_workbook" /\ pc' # "done")
            => (pc' = "remove" /\ wb' = tempReport.sheets /\ tempReport' = tempReport)]_vars
    /\ [][(pc = "remove") => (pc' = "filter" /\ ~tempReport'.exists /\ wb' = wb)]_vars
    /\ [][(tempReport' # tempReport) => (pc = "remove")]_vars

\* the save of a loaded report failed, and temp_report.xlsx is gone
C16Witness ==
    /\ pc = "done"
    /\ outcome = "PermissionError"
    /\ attempts = 1
    /\ wb # <<>>
    /\ ~tempReport.exists
    /\ ~saved.exists

----------------------------------------------------------------------------
(* Properties of the engine's input and of what a run deletes *)

\* what the path after -files names is there: the selected file, or temp_dir
\* with a copy of every selected file
InputLive ==
    IF Len(files) = 1
    THEN /\ files_to_check = files[1]
         /\ files[1].name \in srcFiles[files[1].dir]
    ELSE /\ files_to_check = TempDirPath(files_dir)
         /\ tempDir[files_dir].exists
         /\ \A i \in 1..Len(files) :
                [name |-> files[i].name, content |-> Content(files[i])]
                    \in tempDir[files_dir].entries

\* C17: from the moment the engine is spawned until it exits, the path passed
\* after -files exists; with several files temp_dir exists and holds a copy of
\* every selected file: temp_dir is not deleted between the return of
\* prepare_files and the exit of the engine.
C17InputLiveWhileEngineRuns ==
    engine = "running" => InputLive

\* C18: over a whole run, with one file or several, the run removes nothing but
\* a temp_dir of its own consolidation, a stale temp_dir it replaces when
\* several files are selected, and temp_report.xlsx: the selected files and
\* their directory stay, and so does a temp_dir the run has not made.
C18DeletesOnlyItsOwn ==
    /\ [](srcFiles = start.srcFiles)
    /\ [][\A d \in Dirs :
            (tempDir'[d] # tempDir[d])
                => (files # <<>> /\ d = files[1].dir /\ Len(files) >= 2)]_vars

----------------------------------------------------------------------------
(* Properties of the precheck's result *)

\* the precheck has returned and every question was answered with Yes
ReturnedAfterYes ==
    /\ pc \notin {"close_verifika", "question", "kill"}
    /\ answers # <<>>
    /\ \A k \in 1..Len(answers) : answers[k] = "yes"

\* C19: when the precheck returns after the user answered Yes, no process with
\* the engine's executable name, in any letter case, that ran when the precheck
\* started is still running, however many there were; an instance that exits by
\* itself before the kill causes no error.
C19NoEngineLeftRunning ==
    /\ ReturnedAfterYes
        => \A i \in 1..Len(procs) :
              lower(procs[i].name) = "verifika.exe" => procs[i].state # "running"
    /\ outcome # "NoSuchProcess"

====
